---- MODULE Spec2Model ----
(***************************************************************************)
(* Model of Understanding/plot_analysis.py: a script that imports its      *)
(* charting packages, builds a sample dataset, calls four rendering        *)
(* routines one after the other from main(), and wraps main() in a         *)
(* try/except with two handlers.                                           *)
(*                                                                         *)
(* Numbers: the script's floats are modelled as exact rationals            *)
(* [num, den] in lowest terms, so a quotient such as 8.5/0.018 is the      *)
(* rational 4250/9.  Values that involve log2 are modelled exactly in the  *)
(* forms described at their definitions.                                   *)
(***************************************************************************)
EXTENDS Integers, Sequences, FiniteSets, TLC

VARIABLES pc, installed, data, fib, plots, files, out, calls, accessed,
          raised, raisedAt, handler, status

vars == <<pc, installed, data, fib, plots, files, out, calls, accessed,
          raised, raisedAt, handler, status>>

----------------------------------------------------------------------------
(* Exact rational arithmetic standing for the float arithmetic of numpy.   *)

RECURSIVE GCD(_, _)
GCD(a, b) == IF b = 0 THEN a ELSE GCD(b, a % b)

Abs(x) == IF x < 0 THEN -x ELSE x

\* n/d in lowest terms with a positive denominator (d # 0).
Rat(n, d) ==
    LET g == GCD(Abs(n), Abs(d))
        s == IF d < 0 THEN -1 ELSE 1
    IN  [num |-> s * (n \div g), den |-> s * (d \div g)]

Q(n) == [num |-> n, den |-> 1]

RAdd(a, b) == Rat(a.num * b.den + b.num * a.den, a.den * b.den)
RSub(a, b) == Rat(a.num * b.den - b.num * a.den, a.den * b.den)
RMul(a, b) == Rat(a.num * b.num, a.den * b.den)
RDiv(a, b) == Rat(a.num * b.den, a.den * b.num)
RPos(a)    == a.num > 0

\* The elements of s from index lo to index hi (1-based, inclusive).
Slice(s, lo, hi) == [i \in 1..(hi - lo + 1) |-> s[lo + i - 1]]

\* numpy's elementwise a / b on two arrays of one length.
ElementwiseDiv(a, b) == [i \in 1..Len(a) |-> RDiv(a[i], b[i])]

\* np.linspace(start, stop, n): n evenly spaced points, both ends included.
Linspace(start, stop, n) ==
    [i \in 1..n |-> RAdd(start, RDiv(RMul(Q(i - 1), RSub(stop, start)), Q(n - 1)))]

----------------------------------------------------------------------------
(* create_sample_data(): the literal arrays.                               *)

SampleSizes     == <<Q(1000), Q(2000), Q(5000), Q(10000), Q(20000)>>
BubbleTimes     == <<Q(12), Q(45), Q(280), Q(1100), Q(4400)>>
InsertionTimes  == <<Q(8), Q(30), Q(190), Q(750), Q(3000)>>
MergeTimes      == <<Q(2), Q(4), Q(12), Q(25), Q(55)>>
QuickTimes      == <<Rat(15, 10), Rat(35, 10), Q(10), Q(22), Q(48)>>
SearchSizes     == <<Q(1000), Q(5000), Q(10000), Q(50000), Q(100000)>>
LinearSearch    == <<Rat(8, 10), Rat(42, 10), Rat(85, 10), Q(42), Q(85)>>
BinarySearch    == <<Rat(10, 1000), Rat(15, 1000), Rat(18, 1000),
                     Rat(25, 1000), Rat(28, 1000)>>

create_sample_data_short ==
    [sizes |-> SampleSizes, bubble |-> BubbleTimes,
     insertion |-> InsertionTimes, merge |-> MergeTimes,
     quick |-> Slice(QuickTimes, 1, 4),
     search_sizes |-> SearchSizes, linear |-> LinearSearch,
     binary |-> BinarySearch]

create_sample_data ==
    [sizes |-> SampleSizes, bubble |-> BubbleTimes,
     insertion |-> InsertionTimes, merge |-> MergeTimes,
     quick |-> QuickTimes,
     search_sizes |-> SearchSizes, linear |-> LinearSearch,
     binary |-> BinarySearch]

\* The literals inlined in plot_fibonacci_analysis().
FibonacciData ==
    [n_values    |-> <<Q(10), Q(15), Q(20), Q(25), Q(30), Q(35), Q(40)>>,
     naive_calls |-> <<Q(177), Q(1973), Q(21891), Q(242785), Q(2692537),
                       Q(29860703), Q(331160281)>>,
     memo_calls  |-> <<Q(19), Q(29), Q(39), Q(49), Q(59), Q(69), Q(79)>>,
     naive_times |-> <<Rat(1, 1000), Rat(1, 100), Rat(1, 10), Rat(12, 10),
                       Rat(135, 10), Q(152), Q(1680)>>,
     memo_times  |-> <<Rat(1, 1000), Rat(1, 1000), Rat(1, 1000), Rat(1, 1000),
                       Rat(2, 1000), Rat(2, 1000), Rat(2, 1000)>>]

\* Before create_sample_data() has returned, and before the Fibonacci
\* routine has bound its locals, the names are unbound.
NoData == [sizes |-> <<>>, bubble |-> <<>>, insertion |-> <<>>,
           merge |-> <<>>, quick |-> <<>>, search_sizes |-> <<>>,
           linear |-> <<>>, binary |-> <<>>]
NoFib  == [n_values |-> <<>>, naive_calls |-> <<>>, memo_calls |-> <<>>,
           naive_times |-> <<>>, memo_times |-> <<>>]

----------------------------------------------------------------------------
(* plot_sorting_comparison: the computed series.                           *)

\* bubble_growth / merge_growth: t[1:] / t[:-1].
GrowthRates_inverted(t) ==
    ElementwiseDiv(Slice(t, 1, Len(t) - 1), Slice(t, 2, Len(t)))

GrowthRates(t) ==
    ElementwiseDiv(Slice(t, 2, Len(t)), Slice(t, 1, Len(t) - 1))

\* The tick labels f'{sizes[i]}->{sizes[i+1]}' for i in range(len(sizes)-1).
TransitionLabels(sizes) ==
    [i \in 1..(Len(sizes) - 1) |-> <<sizes[i], sizes[i + 1]>>]

\* np.linspace(sizes[0], sizes[-1], 100)
TheoryPoints == 100
TheoryX(sizes) == Linspace(sizes[1], sizes[Len(sizes)], TheoryPoints)

\* (x_theory/1000)**2 * 10
TheoryQuadratic(x) ==
    [i \in 1..Len(x) |->
        LET r == RDiv(x[i], Q(1000)) IN RMul(RMul(r, r), Q(10))]

\* (x_theory/1000) * np.log2(x_theory/1000) * 2.  log2 of a rational is kept
\* symbolic: the record [coef, arg] stands for the real coef * log2(arg).
TheoryNLogN(x) ==
    [i \in 1..Len(x) |->
        LET r == RDiv(x[i], Q(1000)) IN [coef |-> RMul(r, Q(2)), arg |-> r]]

\* The sign of log2(a) for a rational a > 0: log2 is increasing, log2(1) = 0.
Log2Sign(a) == IF a.num > a.den THEN 1 ELSE IF a.num = a.den THEN 0 ELSE -1
RSign(a)    == IF a.num > 0 THEN 1 ELSE IF a.num = 0 THEN 0 ELSE -1
\* The sign of the real coef * log2(arg).
LogTermSign(t) == RSign(t.coef) * Log2Sign(t.arg)

----------------------------------------------------------------------------
(* plot_search_comparison: efficiency_ratio = data['linear'] / data['binary'] *)

EfficiencyRatio_inverted(linear, binary) == ElementwiseDiv(binary, linear)

EfficiencyRatio(linear, binary) == ElementwiseDiv(linear, binary)

----------------------------------------------------------------------------
(* create_complexity_cheatsheet: the six curves over n = np.logspace(1,4,1000). *)
(* Every value the routine computes is a real of the form                  *)
(*     c * L^l * 10^e,   L = log2(10), c and e rational, l a natural,      *)
(* kept as the record [c, l, e].  With 1 <= c < 10 the form is unique      *)
(* (L is transcendental), so equality of records is equality of reals.     *)

LogspaceStart == 1
LogspaceStop  == 4
LogspaceNum   == 1000

\* np.logspace(a, b, num) = 10 ** np.linspace(a, b, num)
Logspace(a, b, num) ==
    LET ex == Linspace(Q(a), Q(b), num)
    IN  [i \in 1..num |-> [c |-> Q(1), l |-> 0, e |-> ex[i]]]

TOne == [c |-> Q(1), l |-> 0, e |-> Q(0)]
TMul(a, b) == [c |-> RMul(a.c, b.c), l |-> a.l + b.l, e |-> RAdd(a.e, b.e)]
\* log2(10^e) = e * L          (the argument is a pure power of ten)
TLog2(a) == [c |-> a.e, l |-> 1, e |-> Q(0)]
\* 2 ** (c * L) = 10^c         (the argument is a rational multiple of L)
TExp2(a) == [c |-> Q(1), l |-> 0, e |-> a.c]

CheatsheetLabels ==
    <<"O(1) - Hash table lookup", "O(log n) - Binary search",
      "O(n) - Linear search", "O(n log n) - Merge/Quick sort",
      "O(n^2) - Bubble/Insertion sort", "O(2^n) - Naive Fibonacci">>

\* The y-arrays of the six ax.loglog calls, in source order.
CheatsheetCurves(n) ==
    <<[i \in 1..Len(n) |-> TOne],                     \* np.ones_like(n)
      [i \in 1..Len(n) |-> TLog2(n[i])],              \* np.log2(n)
      n,                                              \* n
      [i \in 1..Len(n) |-> TMul(n[i], TLog2(n[i]))],  \* n * np.log2(n)
      [i \in 1..Len(n) |-> TMul(n[i], n[i])],         \* n**2
      [i \in 1..Len(n) |-> TExp2(TLog2(n[i]))]>>      \* 2**np.log2(n)

----------------------------------------------------------------------------
(* The script: module-level imports, main(), the try/except around it.     *)

Packages == {"matplotlib", "numpy", "pandas"}

\* The four import statements, in source order, and the package of each.
ImportSteps ==
    <<"matplotlib.pyplot", "numpy", "pandas", "matplotlib.patches">>
PackageOf(m) ==
    IF m \in {"matplotlib.pyplot", "matplotlib.patches"} THEN "matplotlib" ELSE m

Routines == {"plot_sorting_comparison", "plot_search_comparison",
             "plot_fibonacci_analysis", "create_complexity_cheatsheet"}

\* The order in which main() calls the routines.
MainCalls_swapped ==
    <<"plot_search_comparison", "plot_sorting_comparison",
      "plot_fibonacci_analysis", "create_complexity_cheatsheet">>

MainCalls ==
    <<"plot_sorting_comparison", "plot_search_comparison",
      "plot_fibonacci_analysis", "create_complexity_cheatsheet">>

IndexOf(seq, x) == CHOOSE i \in 1..Len(seq) : seq[i] = x

\* The path each routine hands to plt.savefig.
FigureFile_copied(r) ==
    CASE r = "plot_sorting_comparison"      -> "sorting_analysis.png"
      [] r = "plot_search_comparison"       -> "sorting_analysis.png"
      [] r = "plot_fibonacci_analysis"      -> "fibonacci_analysis.png"
      [] r = "create_complexity_cheatsheet" -> "complexity_cheatsheet.png"

FigureFile(r) ==
    CASE r = "plot_sorting_comparison"      -> "sorting_analysis.png"
      [] r = "plot_search_comparison"       -> "search_analysis.png"
      [] r = "plot_fibonacci_analysis"      -> "fibonacci_analysis.png"
      [] r = "create_complexity_cheatsheet" -> "complexity_cheatsheet.png"

\* The line main() prints after each routine returns (the check mark that
\* starts each line is written [v]).
ConfirmLine(r) ==
    CASE r = "plot_sorting_comparison" ->
            "[v] Sorting algorithm comparison saved as 'sorting_analysis.png'"
      [] r = "plot_search_comparison" ->
            "[v] Search algorithm comparison saved as 'search_analysis.png'"
      [] r = "plot_fibonacci_analysis" ->
            "[v] Fibonacci recursion analysis saved as 'fibonacci_analysis.png'"
      [] r = "create_complexity_cheatsheet" ->
            "[v] Complexity reference chart saved as 'complexity_cheatsheet.png'"

\* What a statement can raise: an ImportError (a backend module that fails
\* to load), any other Exception, or a BaseException outside Exception
\* (Ctrl-C while plt.show() blocks).
FaultKinds == {"ImportError", "RuntimeError", "KeyboardInterrupt"}

\* Python's built-in exception hierarchy, as far as the kinds above go.
BaseClass(k) ==
    CASE k = "ImportError"       -> "Exception"
      [] k = "RuntimeError"      -> "Exception"
      [] k = "Exception"         -> "BaseException"
      [] k = "KeyboardInterrupt" -> "BaseException"
      [] k = "BaseException"     -> "object"

RECURSIVE IsInstance(_, _)
IsInstance(k, cls) ==
    IF k = cls THEN TRUE
    ELSE IF k = "object" THEN FALSE
    ELSE IsInstance(BaseClass(k), cls)

\* The except clause that takes an exception of kind k raised under the try:
\* the first clause, in source order, whose class k is an instance of.
HandlerFor_importOnly(k) ==
    IF IsInstance(k, "ImportError") THEN "ImportError" ELSE "none"

HandlerFor(k) ==
    IF IsInstance(k, "ImportError") THEN "ImportError"
    ELSE IF IsInstance(k, "Exception") THEN "Exception"
    ELSE "none"

NoPlots ==
    [bubble_growth |-> <<>>, merge_growth |-> <<>>, xticks |-> <<>>,
     x_theory |-> <<>>, theory_n2 |-> <<>>, theory_nlogn |-> <<>>,
     ratio_x |-> <<>>, efficiency_ratio |-> <<>>, fib_callout |-> <<>>,
     cheatsheet_n |-> <<>>, cheatsheet |-> <<>>]

AtExit == <<"exit", "">>

Init ==
    /\ pc = <<"import", ImportSteps[1]>>
    /\ installed \in {Packages} \cup {Packages \ {p} : p \in Packages}
    /\ data = NoData
    /\ fib = NoFib
    /\ plots = NoPlots
    /\ files = <<>>
    /\ out = <<>>
    /\ calls = <<>>
    /\ accessed = {}
    /\ raised = "none"
    /\ raisedAt = <<"", "">>
    /\ handler = "none"
    /\ status = -1

\* import X, the package being installed.
Import ==
    /\ pc[1] = "import"
    /\ PackageOf(pc[2]) \in installed
    /\ LET i == IndexOf(ImportSteps, pc[2])
       IN  pc' = IF i < Len(ImportSteps) THEN <<"import", ImportSteps[i + 1]>>
                 ELSE <<"main", "banner">>
    /\ UNCHANGED <<installed, data, fib, plots, files, out, calls, accessed,
                   raised, raisedAt, handler, status>>

\* import X, the package missing: the statement is at module level, above
\* the try, so the ImportError ends the interpreter with a traceback.
ImportFails ==
    /\ pc[1] = "import"
    /\ PackageOf(pc[2]) \notin installed
    /\ raised' = "ImportError"
    /\ raisedAt' = pc
    /\ status' = 1
    /\ pc' = AtExit
    /\ UNCHANGED <<installed, data, fib, plots, files, out, calls, accessed,
                   handler>>

MainBanner ==
    /\ pc = <<"main", "banner">>
    /\ out' = out \o <<"Algorithm Performance Analysis",
                       "========================================">>
    /\ pc' = <<"main", "create_sample_data">>
    /\ UNCHANGED <<installed, data, fib, plots, files, calls, accessed,
                   raised, raisedAt, handler, status>>

CreateSampleData ==
    /\ pc = <<"main", "create_sample_data">>
    /\ data' = create_sample_data
    /\ pc' = <<"main", "generating">>
    /\ UNCHANGED <<installed, fib, plots, files, out, calls, accessed,
                   raised, raisedAt, handler, status>>

MainGenerating ==
    /\ pc = <<"main", "generating">>
    /\ out' = Append(out, "Generating performance analysis plots...")
    /\ pc' = <<MainCalls[1], "render">>
    /\ UNCHANGED <<installed, data, fib, plots, files, calls, accessed,
                   raised, raisedAt, handler, status>>

Reads(r, keys) == {<<r, k>> : k \in keys}

\* plot_sorting_comparison, up to plt.tight_layout().
PlotSortingRender ==
    LET r == "plot_sorting_comparison" IN
    /\ pc = <<r, "render">>
    /\ calls' = Append(calls, r)
    /\ accessed' = accessed \cup
                   Reads(r, {"sizes", "bubble", "insertion", "merge", "quick"})
    /\ plots' = [plots EXCEPT
                   !.x_theory      = TheoryX(data.sizes),
                   !.theory_n2     = TheoryQuadratic(TheoryX(data.sizes)),
                   !.theory_nlogn  = TheoryNLogN(TheoryX(data.sizes)),
                   !.bubble_growth = GrowthRates(data.bubble),
                   !.merge_growth  = GrowthRates(data.merge),
                   !.xticks        = TransitionLabels(data.sizes)]
    /\ pc' = <<r, "savefig">>
    /\ UNCHANGED <<installed, data, fib, files, out, raised, raisedAt,
                   handler, status>>

\* A variant that divides in place (data['linear'] /= data['binary']).
PlotSearchRender_inplace ==
    LET r == "plot_search_comparison" IN
    /\ pc = <<r, "render">>
    /\ calls' = Append(calls, r)
    /\ accessed' = accessed \cup Reads(r, {"search_sizes", "linear", "binary"})
    /\ data' = [data EXCEPT !.linear = EfficiencyRatio(data.linear, data.binary)]
    /\ plots' = [plots EXCEPT
                   !.ratio_x          = data.search_sizes,
                   !.efficiency_ratio = data'.linear]
    /\ pc' = <<r, "savefig">>
    /\ UNCHANGED <<installed, fib, files, out, raised, raisedAt,
                   handler, status>>

\* plot_search_comparison, up to plt.tight_layout().
PlotSearchRender ==
    LET r == "plot_search_comparison" IN
    /\ pc = <<r, "render">>
    /\ calls' = Append(calls, r)
    /\ accessed' = accessed \cup Reads(r, {"search_sizes", "linear", "binary"})
    /\ plots' = [plots EXCEPT
                   !.ratio_x          = data.search_sizes,
                   !.efficiency_ratio = EfficiencyRatio(data.linear, data.binary)]
    /\ pc' = <<r, "savefig">>
    /\ UNCHANGED <<installed, data, fib, files, out, raised, raisedAt,
                   handler, status>>

\* plot_fibonacci_analysis, up to plt.tight_layout(): its own literals.
PlotFibonacciRender ==
    LET r == "plot_fibonacci_analysis" IN
    /\ pc = <<r, "render">>
    /\ calls' = Append(calls, r)
    /\ fib' = FibonacciData
    /\ plots' = [plots EXCEPT
                   !.fib_callout =
                       <<RDiv(FibonacciData.naive_times[Len(FibonacciData.naive_times)],
                              FibonacciData.memo_times[Len(FibonacciData.memo_times)])>>]
    /\ pc' = <<r, "savefig">>
    /\ UNCHANGED <<installed, data, files, out, accessed, raised, raisedAt,
                   handler, status>>

\* create_complexity_cheatsheet, up to plt.tight_layout().
CheatsheetRender ==
    LET r == "create_complexity_cheatsheet"
        n == Logspace(LogspaceStart, LogspaceStop, LogspaceNum)
    IN
    /\ pc = <<r, "render">>
    /\ calls' = Append(calls, r)
    /\ plots' = [plots EXCEPT !.cheatsheet_n = n,
                              !.cheatsheet   = CheatsheetCurves(n)]
    /\ pc' = <<r, "savefig">>
    /\ UNCHANGED <<installed, data, fib, files, out, accessed, raised,
                   raisedAt, handler, status>>

\* plt.savefig(<the routine's file>, ...)
SaveFig ==
    \E r \in Routines :
        /\ pc = <<r, "savefig">>
        /\ files' = Append(files, [file |-> FigureFile(r), by |-> r])
        /\ pc' = <<r, "show">>
        /\ UNCHANGED <<installed, data, fib, plots, out, calls, accessed,
                       raised, raisedAt, handler, status>>

\* plt.show(), then the return to main().
Show ==
    \E r \in Routines :
        /\ pc = <<r, "show">>
        /\ pc' = <<"confirm", r>>
        /\ UNCHANGED <<installed, data, fib, plots, files, out, calls,
                       accessed, raised, raisedAt, handler, status>>

\* main()'s print after routine r, then the next call.
Confirm ==
    \E r \in Routines :
        /\ pc = <<"confirm", r>>
        /\ out' = Append(out, ConfirmLine(r))
        /\ LET i == IndexOf(MainCalls, r)
           IN  pc' = IF i < Len(MainCalls) THEN <<MainCalls[i + 1], "render">>
                     ELSE <<"main", "footer">>
        /\ UNCHANGED <<installed, data, fib, plots, files, calls, accessed,
                       raised, raisedAt, handler, status>>

\* The closing prints; main() returns and the script ends.
MainFooter ==
    /\ pc = <<"main", "footer">>
    /\ out' = out \o <<"", "Analysis complete! Use these plots in your report.",
                       "", "To use your own data:",
                       "1. Export measurements to CSV format",
                       "2. Replace the create_sample_data() function",
                       "3. Modify column names to match your CSV structure">>
    /\ status' = 0
    /\ pc' = AtExit
    /\ UNCHANGED <<installed, data, fib, plots, files, calls, accessed,
                   raised, raisedAt, handler>>

\* The statement at pc, anywhere under main(), raises instead of completing.
\* A routine whose body raises before its savefig has been called all the
\* same; nothing it computed is drawn to a file.
Raise ==
    /\ pc[1] \notin {"import", "except", "exit"}
    /\ \E k \in FaultKinds :
          /\ raised' = k
          /\ raisedAt' = pc
    /\ calls' = IF pc[2] = "render" THEN Append(calls, pc[1]) ELSE calls
    /\ pc' = <<"except", "">>
    /\ UNCHANGED <<installed, data, fib, plots, files, out, accessed,
                   handler, status>>

\* except ImportError as e
HandleImportError ==
    /\ pc = <<"except", "">>
    /\ HandlerFor(raised) = "ImportError"
    /\ out' = out \o <<"Missing required package: {e}",
                       "Install with: pip install matplotlib pandas numpy">>
    /\ handler' = "ImportError"
    /\ status' = 0
    /\ pc' = AtExit
    /\ UNCHANGED <<installed, data, fib, plots, files, calls, accessed,
                   raised, raisedAt>>

\* except Exception as e
HandleException ==
    /\ pc = <<"except", "">>
    /\ HandlerFor(raised) = "Exception"
    /\ out' = out \o <<"Error: {e}",
                       "Make sure you have the required data and packages installed.">>
    /\ handler' = "Exception"
    /\ status' = 0
    /\ pc' = AtExit
    /\ UNCHANGED <<installed, data, fib, plots, files, calls, accessed,
                   raised, raisedAt>>

\* No except clause matches: the exception leaves the script uncaught.
Propagate ==
    /\ pc = <<"except", "">>
    /\ HandlerFor(raised) = "none"
    /\ status' = 1
    /\ pc' = AtExit
    /\ UNCHANGED <<installed, data, fib, plots, files, out, calls, accessed,
                   raised, raisedAt, handler>>

Next ==
    \/ Import
    \/ ImportFails
    \/ MainBanner
    \/ CreateSampleData
    \/ MainGenerating
    \/ PlotSortingRender
    \/ PlotSearchRender
    \/ PlotFibonacciRender
    \/ CheatsheetRender
    \/ SaveFig
    \/ Show
    \/ Confirm
    \/ MainFooter
    \/ Raise
    \/ HandleImportError
    \/ HandleException
    \/ Propagate

Spec == Init /\ [][Next]_vars

----------------------------------------------------------------------------
(* Properties.  The expected names, lines and orders are written out here  *)
(* from the documentation, independently of the definitions above.         *)

Range(s) == {s[i] : i \in 1..Len(s)}
IsPrefix(s, t) == Len(s) <= Len(t) /\ \A i \in 1..Len(s) : s[i] = t[i]
\* a = b for rationals in any representation (denominators positive)
REq(a, b) == a.num * b.den = b.num * a.den

ExpectedOrder ==
    <<"plot_sorting_comparison", "plot_search_comparison",
      "plot_fibonacci_analysis", "create_complexity_cheatsheet">>
ExpectedFiles ==
    <<"sorting_analysis.png", "search_analysis.png",
      "fibonacci_analysis.png", "complexity_cheatsheet.png">>
ExpectedConfirms ==
    <<"[v] Sorting algorithm comparison saved as 'sorting_analysis.png'",
      "[v] Search algorithm comparison saved as 'search_analysis.png'",
      "[v] Fibonacci recursion analysis saved as 'fibonacci_analysis.png'",
      "[v] Complexity reference chart saved as 'complexity_cheatsheet.png'">>
HintLine    == "Install with: pip install matplotlib pandas numpy"
GenericLine == "Make sure you have the required data and packages installed."

IsConfirm(l) == l \in Range(ExpectedConfirms)
ConfirmsOf(o) == SelectSeq(o, IsConfirm)
FileNames(fs) == [i \in 1..Len(fs) |-> fs[i].file]
Count(s, x) == Cardinality({i \in 1..Len(s) : s[i] = x})

RanToCompletion == pc = AtExit /\ raised = "none"

\* C1: when main() runs to completion without a fault, exactly the four
\* files sorting_analysis.png, search_analysis.png, fibonacci_analysis.png
\* and complexity_cheatsheet.png have been written, each once and by its own
\* routine, and exactly one confirmation line per file has been printed.
C1_FourFilesFourConfirmations ==
    RanToCompletion =>
        /\ Len(files) = 4
        /\ \A i \in 1..4 :
              /\ Count(FileNames(files), ExpectedFiles[i]) = 1
              /\ [file |-> ExpectedFiles[i], by |-> ExpectedOrder[i]] \in Range(files)
              /\ Count(out, ExpectedConfirms[i]) = 1
        /\ Len(ConfirmsOf(out)) = 4

C1_Witness ==
    /\ RanToCompletion
    /\ status = 0
    /\ Len(files) = 4
    /\ Len(ConfirmsOf(out)) = 4

\* C2: the plotted efficiency ratio has the length of the search sizes and
\* ratio[i] = linear[i] / binary[i] at every index; at size 10000 the ratio
\* is 8.5/0.018, about 472.2.
C2_RatioIsElementwiseQuotient ==
    plots.efficiency_ratio # <<>> =>
        /\ Len(plots.efficiency_ratio) = Len(data.search_sizes)
        /\ Len(plots.ratio_x) = Len(plots.efficiency_ratio)
        /\ \A i \in 1..Len(data.search_sizes) :
              REq(RMul(plots.efficiency_ratio[i], data.binary[i]), data.linear[i])
        /\ \A i \in 1..Len(plots.ratio_x) :
              plots.ratio_x[i] = Q(10000) =>
                 /\ REq(plots.efficiency_ratio[i], [num |-> 8500, den |-> 18])
                 /\ (plots.efficiency_ratio[i].num * 10)
                        \div plots.efficiency_ratio[i].den = 4722
        /\ \E i \in 1..Len(plots.ratio_x) : plots.ratio_x[i] = Q(10000)

C2_Witness ==
    /\ pc = <<"plot_search_comparison", "savefig">>
    /\ Len(plots.efficiency_ratio) = 5

\* C3: growth-rate bar i equals time[i+1]/time[i] for the bubble and merge
\* series, one bar per consecutive pair of sample sizes; the bubble-sort
\* growth from size 1000 to 2000 is 45/12 = 3.75.
C3_GrowthBars ==
    plots.bubble_growth # <<>> =>
        /\ Len(plots.bubble_growth) = Len(data.sizes) - 1
        /\ Len(plots.merge_growth) = Len(data.sizes) - 1
        /\ Len(plots.xticks) = Len(data.sizes) - 1
        /\ \A i \in 1..(Len(data.sizes) - 1) :
              /\ REq(RMul(plots.bubble_growth[i], data.bubble[i]), data.bubble[i + 1])
              /\ REq(RMul(plots.merge_growth[i], data.merge[i]), data.merge[i + 1])
              /\ plots.xticks[i] = <<data.sizes[i], data.sizes[i + 1]>>
        /\ plots.xticks[1] = <<Q(1000), Q(2000)>>
        /\ REq(plots.bubble_growth[1], [num |-> 45, den |-> 12])
        /\ REq(plots.bubble_growth[1], [num |-> 375, den |-> 100])

C3_Witness ==
    /\ pc = <<"plot_sorting_comparison", "savefig">>
    /\ Len(plots.bubble_growth) = 4

\* C4: for each plotted dataset all parallel sequences have one common
\* length: sizes, bubble, insertion, merge, quick; search_sizes, linear,
\* binary; n_values, naive_calls, memo_calls, naive_times, memo_times.
C4_ParallelSequencesEqualLength ==
    /\ data # NoData =>
          /\ Len(data.sizes) > 0
          /\ \A s \in {data.bubble, data.insertion, data.merge, data.quick} :
                Len(s) = Len(data.sizes)
          /\ Len(data.search_sizes) > 0
          /\ \A s \in {data.linear, data.binary} : Len(s) = Len(data.search_sizes)
    /\ fib # NoFib =>
          /\ Len(fib.n_values) > 0
          /\ \A s \in {fib.naive_calls, fib.memo_calls, fib.naive_times,
                       fib.memo_times} : Len(s) = Len(fib.n_values)

C4_Witness ==
    /\ data # NoData
    /\ fib # NoFib
    /\ pc = <<"plot_fibonacci_analysis", "savefig">>

FaultUnderMain == raised # "none" /\ raisedAt[1] # "import"
Caught ==
    /\ handler # "none"
    /\ status = 0
    /\ HintLine \in Range(out) \/ GenericLine \in Range(out)

\* C5 as stated: whatever fault a rendering routine or main() raises, it is
\* caught at the top level, a message is printed and the script ends with
\* success-like termination.
C5_EveryFaultCaught ==
    (pc = AtExit /\ FaultUnderMain) => Caught

\* C5 as amended: a fault raised under main() that is an instance of
\* Exception (ImportError included) is caught at the top level, a message is
\* printed and the script ends with success-like termination; a fault
\* outside Exception, such as KeyboardInterrupt, matches neither handler and
\* leaves the script uncaught, with nothing printed by a handler.
C5_ExceptionsCaught ==
    (pc = AtExit /\ FaultUnderMain) =>
        /\ raised \in {"ImportError", "RuntimeError"} => Caught
        /\ raised = "KeyboardInterrupt" =>
              /\ handler = "none"
              /\ status = 1
              /\ HintLine \notin Range(out)
              /\ GenericLine \notin Range(out)

C5_Witness ==
    /\ pc = AtExit
    /\ raised = "RuntimeError"
    /\ raisedAt = <<"plot_search_comparison", "show">>
    /\ handler = "Exception"
    /\ status = 0

\* C6: when a required package is missing the script reaches the
\* missing-dependency handler and prints the remediation hint; every other
\* failure prints the generic message; exactly one of the two handlers runs
\* per failure.
C6_MissingPackagePrintsHint ==
    pc = AtExit =>
        /\ installed # Packages =>
              /\ handler = "ImportError"
              /\ HintLine \in Range(out)
        /\ (raised # "none" /\ raised # "ImportError") =>
              /\ handler = "Exception"
              /\ GenericLine \in Range(out)
        /\ raised # "none" =>
              (HintLine \in Range(out)) # (GenericLine \in Range(out))

\* C7: the sample dataset is never mutated after create_sample_data()
\* returns it, and only plot_sorting_comparison and plot_search_comparison
\* ever read it.
C7_DatasetNeverMutated ==
    /\ [][data # NoData => data' = data]_vars
    /\ [](\A a \in accessed :
             a[1] \in {"plot_sorting_comparison", "plot_search_comparison"})
    /\ [](Len(files) >= 2 =>
             accessed = {<<"plot_sorting_comparison", k>> :
                            k \in {"sizes", "bubble", "insertion", "merge", "quick"}}
                        \cup {<<"plot_search_comparison", k>> :
                            k \in {"search_sizes", "linear", "binary"}})

C7_Witness ==
    /\ RanToCompletion
    /\ Len(calls) = 4
    /\ data # NoData
    /\ accessed # {}

RoutineIndex(r) == CHOOSE i \in 1..4 : ExpectedOrder[i] = r

\* C8: the routines run in the order sorting, search, fibonacci, cheatsheet;
\* a file's confirmation line is printed only after the file is written; if
\* routine k faults, no later routine runs, no later file is written, no
\* confirmation is printed for k or later, nothing is retried, and the files
\* already written stay in place.
C8_OrderAndNoRecovery ==
    /\ [](/\ IsPrefix(calls, ExpectedOrder)
          /\ IsPrefix(FileNames(files), ExpectedFiles)
          /\ IsPrefix(ConfirmsOf(out), ExpectedConfirms)
          /\ Len(ConfirmsOf(out)) <= Len(files)
          /\ Len(files) <= Len(calls))
    /\ []((raised # "none" /\ raisedAt[1] \in Routines) =>
             /\ Len(calls) = RoutineIndex(raisedAt[1])
             /\ Len(ConfirmsOf(out)) = RoutineIndex(raisedAt[1]) - 1
             /\ Len(files) <= RoutineIndex(raisedAt[1]))
    /\ [][raised # "none" =>
             /\ calls' = calls
             /\ files' = files
             /\ ConfirmsOf(out') = ConfirmsOf(out)]_vars
    /\ [][IsPrefix(files, files') /\ IsPrefix(calls, calls')]_vars

C8_Witness ==
    /\ pc = AtExit
    /\ raised = "RuntimeError"
    /\ raisedAt = <<"plot_fibonacci_analysis", "render">>
    /\ FileNames(files) = <<"sorting_analysis.png", "search_analysis.png">>
    /\ Len(ConfirmsOf(out)) = 2

\* C9: at every sampled n the six cheat-sheet curves, labelled O(1),
\* O(log n), O(n), O(n log n), O(n^2) and O(2^n), take the values 1, log2(n),
\* n, n*log2(n), n^2 and 2^n, so the six curves are pairwise different.
\* (y = 2^n is stated as log2(y) = n.)
C9_SixCanonicalCurves ==
    plots.cheatsheet # <<>> =>
        LET n == plots.cheatsheet_n
            y == plots.cheatsheet
        IN  /\ Len(y) = 6
            /\ \A i \in 1..Len(n) :
                  /\ y[1][i] = TOne
                  /\ y[2][i] = TLog2(n[i])
                  /\ y[3][i] = n[i]
                  /\ y[4][i] = TMul(n[i], TLog2(n[i]))
                  /\ y[5][i] = TMul(n[i], n[i])
                  /\ y[6][i].l = 0 /\ y[6][i].c = Q(1)
                  /\ TLog2(y[6][i]) = n[i]
            /\ \A j, k \in 1..6 : j # k => y[j] # y[k]

\* C10: every point of both theoretical reference curves of the log-log
\* overlay, (x/1000)^2*10 and (x/1000)*log2(x/1000)*2 sampled from sizes[0]
\* to sizes[-1] inclusive, is strictly positive.
C10_TheoryCurvesPositive ==
    plots.x_theory # <<>> =>
        /\ plots.x_theory[1] = data.sizes[1]
        /\ plots.x_theory[Len(plots.x_theory)] = data.sizes[Len(data.sizes)]
        /\ \A i \in 1..Len(plots.x_theory) :
              /\ RPos(plots.theory_n2[i])
              /\ LogTermSign(plots.theory_nlogn[i]) > 0

====
